---- MODULE Spec2Model ----
(***************************************************************************)
(* Crawl scheduling and resilience of webscraper_code.py: the frontier     *)
(* queue with its visited set, depth and page-limit gating, the retry      *)
(* sequence of scrape_page_with_retry, the periodic driver restart and the *)
(* upsert of terminal records.                                             *)
(*                                                                         *)
(* A URL is a sequence of tokens; "/" and "#" are tokens of their own, a   *)
(* scheme with its colon is one token ("http:"), so "http://x/a/" is       *)
(* <<"http:", "/", "/", "x", "/", "a", "/">>.  The string operations of    *)
(* the source (rstrip, startswith, endswith, in, urlparse, urljoin) are    *)
(* computed on these sequences.                                            *)
(***************************************************************************)
EXTENDS Integers, Sequences, FiniteSets, TLC

VARIABLES
    env,                 \* configuration read at import time, and the site crawled
    pc,                  \* position of crawl_website
    urls_to_visit,       \* deque of <<url, depth>>
    visited_urls,        \* set of normalized urls
    pages_scraped_count,
    driver,              \* session handle held by crawl_website, 0 = None
    pg_conn,             \* "none" | "open" | "closed"
    current,             \* [url, depth] of the page being processed
    retry_count,         \* argument of the running scrape_page_with_retry call
    result,              \* (scraped_data, success) returned by scrape_page_with_retry
    sessions,            \* browser sessions: id -> "live" | "quit" | "abandoned"
    store,               \* pages table: the set of its rows
    tables,              \* the tables that exist in the database
    txn,                 \* transaction of pg_conn: "idle" | "aborted" (a statement
                         \* failed and neither commit nor rollback followed yet)
    fetchLog,            \* history: <<url, depth>> of every first call of scrape_page_with_retry
    attemptLog,          \* history: per driver.get, [url, retry_count, session, outcome]
    sinkLog,             \* history: the row of every insert_data call, with its outcome
    restartLog,          \* history: per restart_driver, the page count, how many pages
                         \* were started and had their terminal record, both handles
    sleepLog,            \* history: every time.sleep, [kind, url]
    faults,              \* history: how many environment faults have happened, by kind
    conversation_history,\* simple_voice_agent.py: the global list of messages
    added                \* history: every message passed to add_to_history

vars == <<env, pc, urls_to_visit, visited_urls, pages_scraped_count, driver, pg_conn,
          current, retry_count, result, sessions, store, txn,
          fetchLog, attemptLog, sinkLog, restartLog, sleepLog, faults, tables,
          conversation_history, added>>

-----------------------------------------------------------------------------
(* Bounds of the model *)

\* largest MAX_DEPTH the configuration is drawn from
MaxDepthCfg == 2
\* largest MAX_RETRIES the configuration is drawn from
MaxRetriesCfg == 2
\* how many calls of the environment (a fetch, a statement of the store, a call of
\* the browser engine) may fail in one run
MaxFaults == 3
\* the values DRIVER_RESTART_INTERVAL is drawn from
RestartIntervals == {1, 2}
\* the values PAGE_LIMIT is drawn from (0 = no limit)
PageLimits == {0, 1, 2}

-----------------------------------------------------------------------------
(* Strings *)

\* removal of one trailing slash
rstrip_one(u) ==
    IF Len(u) > 0 /\ u[Len(u)] = "/" THEN SubSeq(u, 1, Len(u) - 1) ELSE u

\* str.rstrip('/')
RECURSIVE rstrip(_)
rstrip(u) ==
    IF Len(u) > 0 /\ u[Len(u)] = "/" THEN rstrip(SubSeq(u, 1, Len(u) - 1)) ELSE u

\* str.lower(), on a token
lower(t) ==
    CASE t = ".PDF" -> ".pdf"
      [] t = "Login" -> "login"
      [] OTHER -> t

Schemes == {"http:", "https:", "ftp:", "mailto:", "tel:", "javascript:"}

\* index of the first token of u at or after i that is in S, Len(u)+1 if none
RECURSIVE FirstIn(_, _, _)
FirstIn(u, i, S) ==
    IF i > Len(u) THEN Len(u) + 1
    ELSE IF u[i] \in S THEN i
    ELSE FirstIn(u, i + 1, S)

\* urllib.parse.urlparse: [scheme, netloc, path, fragment]
urlparse(u) ==
    LET hasScheme == Len(u) > 0 /\ u[1] \in Schemes
        scheme    == IF hasScheme THEN <<u[1]>> ELSE << >>
        r         == IF hasScheme THEN Tail(u) ELSE u
        hasNetloc == Len(r) >= 2 /\ r[1] = "/" /\ r[2] = "/"
        nEnd      == IF hasNetloc THEN FirstIn(r, 3, {"/", "#"}) ELSE 1
        netloc    == IF hasNetloc THEN SubSeq(r, 3, nEnd - 1) ELSE << >>
        p         == IF hasNetloc THEN SubSeq(r, nEnd, Len(r)) ELSE r
        h         == FirstIn(p, 1, {"#"})
    IN  [scheme   |-> scheme,
         hasNetloc |-> hasNetloc,
         netloc   |-> netloc,
         path     |-> SubSeq(p, 1, h - 1),
         fragment |-> SubSeq(p, h + 1, Len(p))]

\* urllib.parse.urlunparse, of the parts above
urlunparse(scheme, netloc, path, fragment) ==
    scheme \o (IF netloc # << >> THEN <<"/", "/">> \o netloc ELSE << >>)
           \o path
           \o (IF fragment # << >> THEN <<"#">> \o fragment ELSE << >>)

\* the directory of a base path: the path without its last segment
RECURSIVE BaseDir(_)
BaseDir(p) ==
    IF Len(p) > 0 /\ p[Len(p)] # "/" THEN BaseDir(SubSeq(p, 1, Len(p) - 1)) ELSE p

\* urllib.parse.urljoin(base, url)
urljoin(base, url) ==
    LET b == urlparse(base)
        r == urlparse(url)
        scheme == IF r.scheme = << >> THEN b.scheme ELSE r.scheme
    IN  IF base = << >> THEN url
        ELSE IF url = << >> THEN base
        ELSE IF scheme # b.scheme \/ scheme \notin {<<"http:">>, <<"https:">>, <<"ftp:">>}
             THEN url
        ELSE IF r.netloc # << >>
             THEN urlunparse(scheme, r.netloc, r.path, r.fragment)
        ELSE IF r.path = << >>
             THEN urlunparse(scheme, b.netloc, b.path, r.fragment)
        ELSE IF r.path[1] = "/"
             THEN urlunparse(scheme, b.netloc, r.path, r.fragment)
        ELSE urlunparse(scheme, b.netloc,
                        (IF BaseDir(b.path) = << >> THEN <<"/">> ELSE BaseDir(b.path))
                            \o r.path,
                        r.fragment)

-----------------------------------------------------------------------------
(* The site crawled: what driver.get and driver.page_source give *)

Http(path) == <<"http:", "/", "/", "x">> \o path

\* the document a url names: the browser sends the url without its fragment
DocKey(u) ==
    LET p == urlparse(u) IN rstrip(urlunparse(p.scheme, p.netloc, p.path, << >>))

Page(title, hrefs) ==
    [title |-> title, content |-> "text", h1_tags |-> "h1", h2_tags |-> "",
     h3_tags |-> "", meta_description |-> "desc", meta_keywords |-> "", hrefs |-> hrefs]

NoPage == Page("", << >>)

\* the pages of the site, by document: the home page links to two pages of the
\* site, to another site and to a mail address; page a links to c twice (with and
\* without a trailing slash), to itself by a fragment, back to the home page, and to
\* a document and a login page; c and d continue the chain
Site ==
    [d \in {Http(<< >>), Http(<<"/", "a">>), Http(<<"/", "b">>), Http(<<"/", "c">>),
            Http(<<"/", "d">>)} |->
        IF d = Http(<< >>)
        THEN Page("Home", << Http(<<"/", "a">>), Http(<<"/", "b">>),
                             <<"http:", "/", "/", "y", "/", "a">>, <<"mailto:", "m">> >>)
        ELSE IF d = Http(<<"/", "a">>)
        THEN Page("A", << <<"c">>, <<"c", "/">>, <<"#", "s">>, Http(<<"/">>),
                          <<"/", "f", ".pdf">>, <<"/", "login">> >>)
        ELSE IF d = Http(<<"/", "b">>)
        THEN Page("", << <<"/", "a", "/">>, Http(<<"/", "a", "#", "s">>), <<"c">> >>)
        ELSE IF d = Http(<<"/", "c">>)
        THEN Page("C", << <<"d">> >>)
        ELSE Page("D", << <<"e">> >>)]

\* driver.page_source after driver.get(u), parsed
PageAt(u) ==
    IF DocKey(u) \in DOMAIN Site THEN Site[DocKey(u)] ELSE NoPage

-----------------------------------------------------------------------------
(* Configuration *)

START_URL == env.START_URL
MAX_DEPTH == env.MAX_DEPTH
MAX_RETRIES == env.MAX_RETRIES
DRIVER_RESTART_INTERVAL == env.DRIVER_RESTART_INTERVAL
PAGE_LIMIT == env.PAGE_LIMIT
DOMAIN_ == urlparse(START_URL).netloc
SKIP_KEYWORDS == {"login", "logout", "register", "cart", "privacy", "terms"}

skip_extensions ==
    {".pdf", ".jpg", ".jpeg", ".png", ".gif", ".bmp", ".svg", ".zip", ".rar",
     ".mp3", ".mp4", ".avi", ".mov", ".css", ".js", ".xml", ".json", ".txt"}

-----------------------------------------------------------------------------
(* is_valid_url *)

\* is_valid_url without the test of the visited set
is_valid_url_ignoring_visited(url, domain, visited) ==
    LET normalized_url == rstrip(url) IN
    /\ url # << >>
    /\ url[1] \notin {"mailto:", "tel:", "#", "javascript:"}
    /\ urlparse(normalized_url).netloc = domain
    /\ lower(normalized_url[Len(normalized_url)]) \notin skip_extensions
    /\ \A i \in 1..Len(normalized_url) : lower(normalized_url[i]) \notin SKIP_KEYWORDS

\* is_valid_url without the test of the domain
is_valid_url_any_domain(url, domain, visited) ==
    LET normalized_url == rstrip(url) IN
    /\ url # << >>
    /\ url[1] \notin {"mailto:", "tel:", "#", "javascript:"}
    /\ normalized_url \notin visited
    /\ lower(normalized_url[Len(normalized_url)]) \notin skip_extensions
    /\ \A i \in 1..Len(normalized_url) : lower(normalized_url[i]) \notin SKIP_KEYWORDS

\* is_valid_url(url, domain, visited)
is_valid_url(url, domain, visited) ==
    LET normalized_url == rstrip(url) IN
    IF url = << >> \/ url[1] \in {"mailto:", "tel:", "#", "javascript:"} THEN FALSE
    ELSE IF urlparse(normalized_url).netloc # domain THEN FALSE
    ELSE IF normalized_url \in visited THEN FALSE
    ELSE IF normalized_url # << >>
            /\ lower(normalized_url[Len(normalized_url)]) \in skip_extensions THEN FALSE
    ELSE IF \E i \in 1..Len(normalized_url) : lower(normalized_url[i]) \in SKIP_KEYWORDS
         THEN FALSE
    ELSE TRUE

-----------------------------------------------------------------------------
(* insert_data *)

\* how many more calls of the environment may fail
FaultsLeft == MaxFaults - (faults.fetch + faults.db + faults.driver)

\* dict.get(key, default)
Get(d, key, default) == IF key \in DOMAIN d THEN d[key] ELSE default

\* the parameters insert_data binds to the INSERT statement
RowOf(scraped_data) ==
    [url              |-> scraped_data.url,
     title            |-> scraped_data.title,
     content          |-> scraped_data.content,
     h1_tags          |-> Get(scraped_data, "h1_tags", ""),
     h2_tags          |-> Get(scraped_data, "h2_tags", ""),
     h3_tags          |-> Get(scraped_data, "h3_tags", ""),
     meta_description |-> Get(scraped_data, "meta_description", ""),
     meta_keywords    |-> Get(scraped_data, "meta_keywords", ""),
     page_depth       |-> Get(scraped_data, "page_depth", 0),
     retry_count      |-> Get(scraped_data, "retry_count", 0),
     status           |-> Get(scraped_data, "status", "success")]

\* INSERT ... ON CONFLICT (url) DO NOTHING: the row of the first write stays
Upsert_keep_first(table, row) ==
    IF \E r \in table : r.url = row.url THEN table ELSE table \cup {row}

\* INSERT ... ON CONFLICT (url) DO UPDATE SET ...: url is UNIQUE, the row that has
\* this url (if any) takes the values of the new one
Upsert(table, row) == {r \in table : r.url # row.url} \cup {row}

\* the outcomes the store can give to one statement
DbOutcomes == {"commit"} \cup (IF FaultsLeft > 0 THEN {"rollback"} ELSE {})

\* what becomes of a statement on the pages table with outcome db: in an aborted
\* transaction, or without the table, every statement fails
Statement(db) == IF txn = "aborted" \/ "pages" \notin tables THEN "rollback" ELSE db

\* insert_data that writes successful pages only
insert_data_success_only(scraped_data, db) ==
    IF Get(scraped_data, "status", "success") = "success"
    THEN /\ store' = IF db = "commit" THEN Upsert(store, RowOf(scraped_data)) ELSE store
         /\ txn' = "idle"
         /\ sinkLog' = Append(sinkLog, [row |-> RowOf(scraped_data), outcome |-> db,
                                        fault |-> db # "commit"])
    ELSE UNCHANGED <<store, txn, sinkLog>>

\* insert_data whose except branch does not roll back
insert_data_no_rollback(scraped_data, db) ==
    /\ store' = IF Statement(db) = "commit" THEN Upsert(store, RowOf(scraped_data))
                ELSE store
    /\ txn' = IF Statement(db) = "commit" THEN "idle" ELSE "aborted"
    /\ sinkLog' = Append(sinkLog, [row |-> RowOf(scraped_data), outcome |-> Statement(db),
                                   fault |-> db # "commit"])

\* insert_data(conn, scraped_data), with the outcome db of its statement: execute and
\* conn.commit(), or on psycopg2.Error conn.rollback(); either ends the transaction
insert_data(scraped_data, db) ==
    /\ store' = IF Statement(db) = "commit" THEN Upsert(store, RowOf(scraped_data))
                ELSE store
    /\ txn' = "idle"
    /\ sinkLog' = Append(sinkLog, [row |-> RowOf(scraped_data), outcome |-> Statement(db),
                                   fault |-> db # "commit"])

-----------------------------------------------------------------------------
(* get_driver, restart_driver *)

LiveSessions == {i \in DOMAIN sessions : sessions[i] = "live"}

\* the outcomes the browser engine can give to one call
DriverOutcomes == {"ok"} \cup (IF FaultsLeft > 0 THEN {"raise"} ELSE {})

\* the sessions after get_driver() returned a new session
Created(ss) == ss \o <<"live">>

\* the sessions after driver.quit() on handle d with outcome q: when quit() raised
\* the program has given the handle up all the same ("abandoned"); whether the
\* browser process is gone is then the engine's matter
Quit(ss, d, q) ==
    IF d \in DOMAIN ss /\ ss[d] = "live"
    THEN [ss EXCEPT ![d] = IF q = "ok" THEN "quit" ELSE "abandoned"]
    ELSE ss

\* restart_driver that creates the new session without quitting the old one
restart_driver_no_quit(ss, d, q, created) == IF created THEN Created(ss) ELSE ss

\* the sessions after restart_driver(d): driver.quit() in the try, with outcome q
\* (an exception of it is logged and swallowed), then get_driver(); created tells
\* whether get_driver returned
restart_driver(ss, d, q, created) ==
    LET afterQuit == IF d # 0 THEN Quit(ss, d, q) ELSE ss
    IN  IF created THEN Created(afterQuit) ELSE afterQuit

-----------------------------------------------------------------------------
(* scrape_page_with_retry *)

\* the success dict with the retry count left out, so that the column default applies
scraped_data_no_retry_count(url, depth, retries) ==
    LET page == PageAt(url) IN
    [url              |-> rstrip(url),
     title            |-> IF page.title # "" THEN page.title ELSE "No Title",
     content          |-> page.content,
     h1_tags          |-> page.h1_tags,
     h2_tags          |-> page.h2_tags,
     h3_tags          |-> page.h3_tags,
     meta_description |-> page.meta_description,
     meta_keywords    |-> page.meta_keywords,
     page_depth       |-> depth,
     status           |-> "success"]

\* the dict built on success
scraped_data(url, depth, retries) ==
    LET page == PageAt(url) IN
    [url              |-> rstrip(url),
     title            |-> IF page.title # "" THEN page.title ELSE "No Title",
     content          |-> page.content,
     h1_tags          |-> page.h1_tags,
     h2_tags          |-> page.h2_tags,
     h3_tags          |-> page.h3_tags,
     meta_description |-> page.meta_description,
     meta_keywords    |-> page.meta_keywords,
     page_depth       |-> depth,
     retry_count      |-> retries,
     status           |-> "success"]

\* the failed dict with the status taken from the first failure of the url
failed_data_first_failure(url, depth, kind) ==
    LET ks == {k \in 1..Len(attemptLog) : attemptLog[k].url = url}
        first == IF ks = {} THEN kind
                 ELSE attemptLog[CHOOSE k \in ks : \A m \in ks : k <= m].outcome
    IN  [url              |-> rstrip(url),
         title            |-> IF first = "timeout" THEN "Failed to load" ELSE "Error occurred",
         content          |-> "",
         h1_tags          |-> "",
         h2_tags          |-> "",
         h3_tags          |-> "",
         meta_description |-> "",
         meta_keywords    |-> "",
         page_depth       |-> depth,
         status           |-> IF first = "timeout" THEN "failed" ELSE "error"]

\* the dict built when the retries are exhausted, by the kind of the last exception
failed_data(url, depth, kind) ==
    [url              |-> rstrip(url),
     title            |-> IF kind = "timeout" THEN "Failed to load" ELSE "Error occurred",
     content          |-> "",
     h1_tags          |-> "",
     h2_tags          |-> "",
     h3_tags          |-> "",
     meta_description |-> "",
     meta_keywords    |-> "",
     page_depth       |-> depth,
     status           |-> IF kind = "timeout" THEN "failed" ELSE "error"]

\* a failure that is raised to crawl_website instead of being returned
TerminalPc_raise(success) == IF success THEN "links" ELSE "finally"

\* where crawl_website goes on after scrape_page_with_retry returned its pair: both
\* the success and the failure return come back to the loop body
TerminalPc(success) == "links"

\* the retry test off by one
ShouldRetry_inclusive(kind, retries) == retries <= MAX_RETRIES

\* the retry test that gives up at once on a lost session
ShouldRetry_unless_fatal(kind, retries) == kind # "fatal" /\ retries < MAX_RETRIES

\* the retry test with the retry left to the TimeoutException branch
ShouldRetry_timeout_only(kind, retries) == kind = "timeout" /\ retries < MAX_RETRIES

\* whether an except branch calls scrape_page_with_retry again
ShouldRetry(kind, retries) == retries < MAX_RETRIES

\* what one driver.get and the waits after it can do: return, raise TimeoutException,
\* raise another exception ("error": a transient one, "fatal": the session is lost)
FetchOutcomes ==
    {"ok"} \cup (IF FaultsLeft > 0 THEN {"timeout", "error", "fatal"} ELSE {})

-----------------------------------------------------------------------------
(* crawl_website *)

NoResult == [data |-> << >>, success |-> FALSE]

Init ==
    /\ env \in [START_URL : {Http(<<"/">>), Http(<<"/", "login">>),
                             Http(<<"/", "f", ".pdf">>)},
                MAX_DEPTH : {0, 1, MaxDepthCfg},
                MAX_RETRIES : {0, 1, MaxRetriesCfg},
                DRIVER_RESTART_INTERVAL : RestartIntervals,
                PAGE_LIMIT : PageLimits]
    /\ pc = "connect"
    /\ urls_to_visit = << <<START_URL, 0>> >>
    /\ visited_urls = {}
    /\ pages_scraped_count = 0
    /\ driver = 0
    /\ pg_conn = "none"
    /\ current = [url |-> << >>, depth |-> 0]
    /\ retry_count = 0
    /\ result = NoResult
    /\ sessions = << >>
    /\ tables \in {{}, {"pages", "knowledge_base"}}
    /\ store = IF "pages" \in tables
               THEN {RowOf([url |-> Http(<<"/", "old">>), title |-> "Old",
                            content |-> "old"])}
               ELSE {}
    /\ txn = "idle"
    /\ fetchLog = << >>
    /\ attemptLog = << >>
    /\ sinkLog = << >>
    /\ restartLog = << >>
    /\ sleepLog = << >>
    /\ faults = [fetch |-> 0, db |-> 0, driver |-> 0]
    /\ conversation_history = << >>
    /\ added = << >>

DbFault(db) == IF db = "commit" THEN faults ELSE [faults EXCEPT !.db = @ + 1]
DriverFault(o) == IF o = "ok" THEN faults ELSE [faults EXCEPT !.driver = @ + 1]
DriverFaults2(q, o) ==
    [faults EXCEPT !.driver = @ + (IF q = "ok" THEN 0 ELSE 1) + (IF o = "ok" THEN 0 ELSE 1)]

\* a run that goes on to the TRUNCATE whether or not the connection was opened
AfterConnect_go_on(db) == "truncate"

\* where crawl_website goes after psycopg2.connect: on, or by except psycopg2.Error
\* to the finally block
AfterConnect(db) == IF db = "commit" THEN "truncate" ELSE "finally"

\* psycopg2.connect: a psycopg2.Error leaves pg_conn None and ends the run
Connect ==
    /\ pc = "connect"
    /\ \E db \in DbOutcomes :
         /\ pg_conn' = IF db = "commit" THEN "open" ELSE "none"
         /\ pc' = AfterConnect(db)
         /\ faults' = DbFault(db)
    /\ UNCHANGED <<txn, sleepLog>>
    /\ UNCHANGED <<tables, conversation_history, added>>
    /\ UNCHANGED <<env, urls_to_visit, visited_urls, pages_scraped_count, driver, current,
                   retry_count, result, sessions, store, fetchLog, attemptLog, sinkLog,
                   restartLog>>

\* a TRUNCATE that does nothing when there is no pages table
TruncateOutcomes_if_exists == DbOutcomes

\* what TRUNCATE TABLE pages can do: without the table it raises a psycopg2.Error
TruncateOutcomes == IF "pages" \in tables THEN DbOutcomes ELSE {"rollback"}

\* TRUNCATE TABLE pages; commit: a psycopg2.Error ends the run at line 456
Truncate ==
    /\ pc = "truncate"
    /\ \E db \in TruncateOutcomes :
         /\ store' = IF db = "commit" THEN {} ELSE store
         /\ txn' = IF db = "commit" THEN "idle" ELSE "aborted"
         /\ pc' = IF db = "commit" THEN "create_tables" ELSE "finally"
         /\ faults' = DbFault(db)
    /\ UNCHANGED sleepLog
    /\ UNCHANGED <<tables, conversation_history, added>>
    /\ UNCHANGED <<env, urls_to_visit, visited_urls, pages_scraped_count, driver, pg_conn,
                   current, retry_count, result, sessions, fetchLog, attemptLog, sinkLog,
                   restartLog>>

\* create_tables(pg_conn): a psycopg2.Error is logged and rolled back
CreateTables ==
    /\ pc = "create_tables"
    /\ \E db \in DbOutcomes :
         /\ tables' = IF db = "commit" THEN tables \cup {"pages", "knowledge_base"}
                       ELSE tables
         /\ faults' = DbFault(db)
    /\ pc' = "get_driver"
    /\ txn' = "idle"
    /\ UNCHANGED sleepLog
    /\ UNCHANGED <<conversation_history, added>>
    /\ UNCHANGED <<env, urls_to_visit, visited_urls, pages_scraped_count, driver, pg_conn,
                   current, retry_count, result, sessions, store, fetchLog, attemptLog,
                   sinkLog, restartLog>>

\* driver = get_driver()
InitDriver ==
    /\ pc = "get_driver"
    /\ \E o \in DriverOutcomes :
         /\ sessions' = IF o = "ok" THEN Created(sessions) ELSE sessions
         /\ driver' = IF o = "ok" THEN Len(sessions) + 1 ELSE driver
         /\ pc' = IF o = "ok" THEN "loop" ELSE "finally"
         /\ faults' = DriverFault(o)
    /\ UNCHANGED <<txn, sleepLog>>
    /\ UNCHANGED <<tables, conversation_history, added>>
    /\ UNCHANGED <<env, urls_to_visit, visited_urls, pages_scraped_count, pg_conn, current,
                   retry_count, result, store, fetchLog, attemptLog, sinkLog, restartLog>>

\* while urls_to_visit: ends when the deque is empty
QueueEmpty ==
    /\ pc = "loop"
    /\ urls_to_visit = << >>
    /\ pc' = "finally"
    /\ UNCHANGED <<txn, sleepLog>>
    /\ UNCHANGED <<tables, conversation_history, added>>
    /\ UNCHANGED <<env, urls_to_visit, visited_urls, pages_scraped_count, driver, pg_conn,
                   current, retry_count, result, sessions, store, fetchLog, attemptLog,
                   sinkLog, restartLog, faults>>

\* the page limit tested one page late
LimitReached_late == PAGE_LIMIT > 0 /\ pages_scraped_count > PAGE_LIMIT

\* the test at the head of the loop body, before popleft
LimitReached == PAGE_LIMIT > 0 /\ pages_scraped_count >= PAGE_LIMIT

\* if PAGE_LIMIT > 0 and pages_scraped_count >= PAGE_LIMIT: break
PageLimit ==
    /\ pc = "loop"
    /\ urls_to_visit # << >>
    /\ LimitReached
    /\ pc' = "finally"
    /\ UNCHANGED <<txn, sleepLog>>
    /\ UNCHANGED <<tables, conversation_history, added>>
    /\ UNCHANGED <<env, urls_to_visit, visited_urls, pages_scraped_count, driver, pg_conn,
                   current, retry_count, result, sessions, store, fetchLog, attemptLog,
                   sinkLog, restartLog, faults>>

\* every sleep taken as the politeness delay, also the one before a retry
Slept_politeness(log, kind, url) == Append(log, [kind |-> "politeness", url |-> url])

\* time.sleep: the politeness delay of the loop body, or the backoff of an except branch
Slept(log, kind, url) == Append(log, [kind |-> kind, url |-> url])

\* the test after popleft without the validator
Accepted_any_url(url, depth) == ~(depth > MAX_DEPTH)

\* the test after popleft: the entry is fetched
Accepted(url, depth) ==
    is_valid_url(rstrip(url), DOMAIN_, visited_urls) /\ ~(depth > MAX_DEPTH)

\* popleft, and continue: the entry is dropped
Skip ==
    /\ pc = "loop"
    /\ urls_to_visit # << >>
    /\ ~LimitReached
    /\ ~Accepted(Head(urls_to_visit)[1], Head(urls_to_visit)[2])
    /\ urls_to_visit' = Tail(urls_to_visit)
    /\ UNCHANGED <<txn, sleepLog>>
    /\ UNCHANGED <<tables, conversation_history, added>>
    /\ UNCHANGED <<env, pc, visited_urls, pages_scraped_count, driver, pg_conn, current,
                   retry_count, result, sessions, store, fetchLog, attemptLog, sinkLog,
                   restartLog, faults>>

\* a loop body that counts the page without marking it visited
MarkVisited_never(visited, normalized_url) == visited

\* a visited set that keeps the last url only
MarkVisited_last_only(visited, normalized_url) == {normalized_url}

\* visited_urls.add(normalized_url)
MarkVisited(visited, normalized_url) == visited \cup {normalized_url}

\* the restart test one page late: when the page after a multiple is accepted
RestartDue_late(count) == count > 1 /\ (count - 1) % DRIVER_RESTART_INTERVAL = 0

\* if pages_scraped_count > 0 and pages_scraped_count % DRIVER_RESTART_INTERVAL == 0
RestartDue(count) == count > 0 /\ count % DRIVER_RESTART_INTERVAL = 0

\* popleft, mark visited, count; no restart is due; politeness delay; the first call
\* of scrape_page_with_retry is next
Accept ==
    /\ pc = "loop"
    /\ urls_to_visit # << >>
    /\ ~LimitReached
    /\ LET current_url == Head(urls_to_visit)[1]
           current_depth == Head(urls_to_visit)[2]
           normalized_url == rstrip(current_url)
       IN  /\ Accepted(current_url, current_depth)
           /\ ~RestartDue(pages_scraped_count + 1)
           /\ urls_to_visit' = Tail(urls_to_visit)
           /\ visited_urls' = MarkVisited(visited_urls, normalized_url)
           /\ pages_scraped_count' = pages_scraped_count + 1
           /\ current' = [url |-> normalized_url, depth |-> current_depth]
           /\ fetchLog' = Append(fetchLog, <<normalized_url, current_depth>>)
    /\ retry_count' = 0
    /\ result' = NoResult
    /\ pc' = "scrape"
    /\ sleepLog' = Slept(sleepLog, "politeness", rstrip(Head(urls_to_visit)[1]))
    /\ UNCHANGED txn
    /\ UNCHANGED <<tables, conversation_history, added>>
    /\ UNCHANGED <<env, driver, pg_conn, sessions, store, attemptLog, sinkLog, restartLog,
                   faults>>

\* the same with a restart due: driver = restart_driver(driver) before the page is
\* fetched; get_driver raising inside it leaves driver unassigned and ends the run.
\* (get_driver never returns None, so "if not driver: break" is never taken.)
AcceptRestart ==
    /\ pc = "loop"
    /\ urls_to_visit # << >>
    /\ ~LimitReached
    /\ LET current_url == Head(urls_to_visit)[1]
           current_depth == Head(urls_to_visit)[2]
           normalized_url == rstrip(current_url)
       IN  /\ Accepted(current_url, current_depth)
           /\ RestartDue(pages_scraped_count + 1)
           /\ urls_to_visit' = Tail(urls_to_visit)
           /\ visited_urls' = MarkVisited(visited_urls, normalized_url)
           /\ pages_scraped_count' = pages_scraped_count + 1
           /\ current' = [url |-> normalized_url, depth |-> current_depth]
           /\ \E q \in DriverOutcomes, o \in DriverOutcomes :
                /\ (q = "ok" \/ o = "ok" \/ FaultsLeft > 1)
                /\ sessions' = restart_driver(sessions, driver, q, o = "ok")
                /\ driver' = IF o = "ok" THEN Len(sessions) + 1 ELSE driver
                /\ faults' = DriverFaults2(q, o)
                /\ restartLog' = Append(restartLog,
                                   [count |-> pages_scraped_count + 1,
                                    terminals |-> Len(sinkLog),
                                    started |-> Len(fetchLog),
                                    old |-> driver,
                                    quit |-> q,
                                    new |-> IF o = "ok" THEN Len(sessions) + 1 ELSE 0,
                                    live |-> Cardinality({i \in DOMAIN sessions' :
                                                            sessions'[i] = "live"})])
                /\ pc' = IF o = "ok" THEN "scrape" ELSE "finally"
                /\ fetchLog' = IF o = "ok"
                               THEN Append(fetchLog, <<normalized_url, current_depth>>)
                               ELSE fetchLog
    /\ retry_count' = 0
    /\ result' = NoResult
    /\ sleepLog' = IF pc' = "scrape"
                   THEN Slept(sleepLog, "politeness", rstrip(Head(urls_to_visit)[1]))
                   ELSE sleepLog
    /\ UNCHANGED txn
    /\ UNCHANGED <<tables, conversation_history, added>>
    /\ UNCHANGED <<env, pg_conn, store, attemptLog, sinkLog>>

\* one call of scrape_page_with_retry(driver, url, depth, conn, retry_count): the try
\* block returns, or an except branch calls it again with retry_count + 1 after the
\* backoff sleep, or builds the failed dict; either dict goes to insert_data once
Attempt ==
    /\ pc = "scrape"
    /\ \E o \in FetchOutcomes, db \in DbOutcomes :
         /\ attemptLog' = Append(attemptLog,
                            [url |-> current.url, retry_count |-> retry_count,
                             session |-> driver, outcome |-> o])
         /\ IF o = "ok"
            THEN /\ insert_data(scraped_data(current.url, current.depth, retry_count), db)
                 /\ result' = [data |-> scraped_data(current.url, current.depth, retry_count),
                               success |-> TRUE]
                 /\ faults' = DbFault(db)
                 /\ pc' = TerminalPc(TRUE)
                 /\ UNCHANGED <<retry_count, sleepLog>>
            ELSE IF ShouldRetry(o, retry_count)
            THEN /\ db = "commit"
                 /\ retry_count' = retry_count + 1
                 /\ faults' = [faults EXCEPT !.fetch = @ + 1]
                 /\ sleepLog' = Slept(sleepLog, "backoff", current.url)
                 /\ UNCHANGED <<pc, result, store, txn, sinkLog>>
            ELSE /\ (db = "commit" \/ FaultsLeft > 1)
                 /\ insert_data(failed_data(current.url, current.depth, o), db)
                 /\ result' = [data |-> failed_data(current.url, current.depth, o),
                               success |-> FALSE]
                 /\ faults' = [DbFault(db) EXCEPT !.fetch = @ + 1]
                 /\ pc' = TerminalPc(FALSE)
                 /\ UNCHANGED <<retry_count, sleepLog>>
    /\ UNCHANGED <<tables, conversation_history, added>>
    /\ UNCHANGED <<env, urls_to_visit, visited_urls, pages_scraped_count, driver, pg_conn,
                   current, sessions, fetchLog, restartLog>>

\* links queued with the depth of their parent
LinkDepth_same(current_depth) == current_depth

\* the depth given to a link found on a page of depth current_depth
LinkDepth(current_depth) == current_depth + 1

\* a link loop that does not scan the queue
is_already_in_queue_never(queue, full_url) == FALSE

\* the queue scan comparing the urls as they are written
is_already_in_queue_exact(queue, full_url) ==
    \E j \in 1..Len(queue) : queue[j][1] = full_url

\* any(url_in_queue.rstrip('/') == full_url.rstrip('/') for url_in_queue, _ in urls_to_visit)
is_already_in_queue(queue, full_url) ==
    \E j \in 1..Len(queue) : rstrip(queue[j][1]) = rstrip(full_url)

\* the entry put at the head of the deque
Enqueue_front(queue, entry) == <<entry>> \o queue

\* urls_to_visit.append((full_url, current_depth + 1))
Enqueue(queue, entry) == Append(queue, entry)

\* the for loop over the anchors of the page, from anchor i on
RECURSIVE AddLinks(_, _, _, _, _)
AddLinks(queue, hrefs, i, normalized_url, current_depth) ==
    IF i > Len(hrefs) THEN queue
    ELSE LET full_url == urljoin(normalized_url, hrefs[i])
         IN  AddLinks(IF ~is_already_in_queue(queue, full_url)
                         /\ is_valid_url(full_url, DOMAIN_, visited_urls)
                      THEN Enqueue(queue, <<full_url, LinkDepth(current_depth)>>)
                      ELSE queue,
                      hrefs, i + 1, normalized_url, current_depth)

\* links followed only from a page whose record is in the table
FollowLinks_if_stored(current_depth, success) ==
    current_depth < MAX_DEPTH /\ success /\ \E r \in store : r.url = current.url

\* the link test without the success flag
FollowLinks_any_outcome(current_depth, success) == current_depth < MAX_DEPTH

\* if current_depth < MAX_DEPTH and success
FollowLinks(current_depth, success) == current_depth < MAX_DEPTH /\ success

\* the rest of the loop body after scrape_page_with_retry returned
Links ==
    /\ pc = "links"
    /\ urls_to_visit' =
         IF FollowLinks(current.depth, result.success)
         THEN AddLinks(urls_to_visit, PageAt(current.url).hrefs, 1, current.url, current.depth)
         ELSE urls_to_visit
    /\ pc' = "loop"
    /\ UNCHANGED <<txn, sleepLog>>
    /\ UNCHANGED <<tables, conversation_history, added>>
    /\ UNCHANGED <<env, visited_urls, pages_scraped_count, driver, pg_conn, current,
                   retry_count, result, sessions, store, fetchLog, attemptLog, sinkLog,
                   restartLog, faults>>

\* the finally block: driver.quit() if a driver is held, then pg_conn.close(); an
\* exception of driver.quit() leaves the block before the connection is closed
Finalize ==
    /\ pc = "finally"
    /\ \E q \in (IF driver # 0 THEN DriverOutcomes ELSE {"ok"}) :
         /\ sessions' = IF driver # 0 THEN Quit(sessions, driver, q) ELSE sessions
         /\ pg_conn' = IF q = "ok" /\ pg_conn = "open" THEN "closed" ELSE pg_conn
         /\ faults' = DriverFault(q)
    /\ pc' = "done"
    /\ UNCHANGED <<txn, sleepLog>>
    /\ UNCHANGED <<tables, conversation_history, added>>
    /\ UNCHANGED <<env, urls_to_visit, visited_urls, pages_scraped_count, driver, current,
                   retry_count, result, store, fetchLog, attemptLog, sinkLog, restartLog>>

Next ==
    \/ Connect
    \/ Truncate
    \/ CreateTables
    \/ InitDriver
    \/ QueueEmpty
    \/ PageLimit
    \/ Skip
    \/ Accept
    \/ AcceptRestart
    \/ Attempt
    \/ Links
    \/ Finalize

Spec == Init /\ [][Next]_vars

-----------------------------------------------------------------------------
(* Properties *)

\* the key of the frontier, the visited set and the store: trailing slashes stripped
Key(u) == rstrip(u)

\* the key with the fragment removed as well
KeyNoFragment(u) == DocKey(u)

Terminated == pc = "done"

FailedRows == {i \in 1..Len(sinkLog) : sinkLog[i].row.status \in {"failed", "error"}}

\* the index in attemptLog of the last attempt made for the i-th fetched page
LastAttemptOf(i) ==
    CHOOSE k \in 1..Len(attemptLog) :
        /\ attemptLog[k].url = fetchLog[i][1]
        /\ \A m \in (k + 1)..Len(attemptLog) : attemptLog[m].url # fetchLog[i][1]

\* C1: over a run, scrape_page_with_retry is started at most once for every url
\* key (the url with its trailing slashes stripped).
C1_FetchedAtMostOnce ==
    \A i, j \in 1..Len(fetchLog) : i # j => Key(fetchLog[i][1]) # Key(fetchLog[j][1])

\* page a, which links to "c" and to "c/", was fetched and expanded, and c was fetched
C1_Witness ==
    /\ Terminated
    /\ \E i, j \in 1..Len(fetchLog) :
         /\ i < j
         /\ fetchLog[i][1] = Http(<<"/", "a">>)
         /\ fetchLog[j][1] = Http(<<"/", "c">>)

\* C2: two urls that differ only in their fragment are one key: no document is
\* fetched twice, and none is queued while it is visited or queued already.
C2_FragmentIsNoNewKey ==
    /\ \A i, j \in 1..Len(fetchLog) :
         i # j => KeyNoFragment(fetchLog[i][1]) # KeyNoFragment(fetchLog[j][1])
    /\ \A k \in 1..Len(urls_to_visit) :
         KeyNoFragment(urls_to_visit[k][1]) \notin {KeyNoFragment(v) : v \in visited_urls}

\* C3: a link found on a page of depth d is queued with depth d + 1, and no entry of
\* depth > MAX_DEPTH is handed to scrape_page_with_retry.
C3_DepthCorrect ==
    [][/\ pc = "links" =>
            \A k \in (Len(urls_to_visit) + 1)..Len(urls_to_visit') :
                urls_to_visit'[k][2] = current.depth + 1
       /\ \A k \in (Len(fetchLog) + 1)..Len(fetchLog') :
            fetchLog'[k][2] <= MAX_DEPTH]_vars

\* a page at depth MAX_DEPTH >= 2 was fetched, so links were queued at two depths
C3_Witness ==
    /\ Terminated
    /\ MAX_DEPTH >= 2
    /\ \E i \in 1..Len(fetchLog) : fetchLog[i][2] = MAX_DEPTH

\* C4: every page whose fetch was started ends with exactly one insert_data call,
\* for its url: the calls made so far are those of the pages fetched so far, in
\* order, and only the page being fetched has none yet.
C4_OneTerminalRecord ==
    /\ Len(sinkLog) = IF pc = "scrape" THEN Len(fetchLog) - 1 ELSE Len(fetchLog)
    /\ \A i \in 1..Len(sinkLog) : sinkLog[i].row.url = fetchLog[i][1]

\* a page got its terminal record after two attempts that failed
C4_Witness ==
    /\ pc = "links"
    /\ retry_count >= 2
    /\ Len(sinkLog) = Len(fetchLog)

\* C5: every row handed to insert_data has 0 <= retry_count <= MAX_RETRIES.
C5_RetryBound ==
    \A i \in 1..Len(sinkLog) :
        /\ 0 <= sinkLog[i].row.retry_count
        /\ sinkLog[i].row.retry_count <= MAX_RETRIES

\* a success at the last allowed attempt, and a failed row, were both persisted
C5_Witness ==
    /\ MAX_RETRIES >= 1
    /\ \E i \in 1..Len(sinkLog) :
         sinkLog[i].row.status = "success" /\ sinkLog[i].row.retry_count = MAX_RETRIES
    /\ FailedRows # {}

\* C6: the terminal row of an exhausted url has empty content fields, status failed
\* after a timeout and error otherwise, and retry_count = MAX_RETRIES.
C6_ExhaustedRow ==
    \A i \in FailedRows :
        LET row == sinkLog[i].row
            last == attemptLog[LastAttemptOf(i)]
        IN  /\ row.content = "" /\ row.h1_tags = "" /\ row.h2_tags = "" /\ row.h3_tags = ""
            /\ row.meta_description = "" /\ row.meta_keywords = ""
            /\ row.status = (IF last.outcome = "timeout" THEN "failed" ELSE "error")
            /\ row.retry_count = MAX_RETRIES

\* C7: a page that ends failed or error does not end the run: its failure return
\* leads back to the head of the loop with the pending entries as they were, and the
\* loop is left only with the frontier empty, at the page limit, or because a
\* driver restart failed.
C7_FailureContained ==
    /\ []((pc \in {"finally", "done"} /\ FailedRows # {}) =>
            \/ urls_to_visit = << >>
            \/ LimitReached
            \/ (restartLog # << >> /\ restartLog[Len(restartLog)].new = 0))
    /\ [][(pc = "scrape" /\ pc' # "scrape" /\ ~result'.success) => pc' = "links"]_vars
    /\ [][(pc = "links" /\ ~result.success) =>
            (pc' = "loop" /\ urls_to_visit' = urls_to_visit)]_vars

\* the second page failed with two entries pending, and both were fetched afterwards
C7_Witness ==
    /\ Terminated
    /\ 2 \in FailedRows
    /\ Len(sinkLog) >= 4
    /\ sinkLog[3].row.status = "success" /\ sinkLog[4].row.status = "success"
    /\ urls_to_visit = << >>

C9_RestartAfterPage ==
    \A k \in 1..Len(restartLog) : restartLog[k].terminals >= restartLog[k].count

\* C9 amended: there is one restart per N accepted pages; the k-th happens when page
\* k*N is accepted, before its first attempt, with every earlier page terminal.
C9_RestartCadence ==
    /\ Len(restartLog) = pages_scraped_count \div DRIVER_RESTART_INTERVAL
    /\ \A k \in 1..Len(restartLog) :
         /\ restartLog[k].count = k * DRIVER_RESTART_INTERVAL
         /\ restartLog[k].started = restartLog[k].count - 1
         /\ restartLog[k].terminals = restartLog[k].count - 1

\* interval 2, pages 1..4 fetched: two restarts, at the acceptance of pages 2 and 4
C9_Witness ==
    /\ pc = "links"
    /\ DRIVER_RESTART_INTERVAL = 2
    /\ Len(sinkLog) = 4
    /\ Len(restartLog) = 2
    /\ restartLog[1].count = 2 /\ restartLog[2].count = 4

Written ==
    {sinkLog[i].row : i \in {j \in 1..Len(sinkLog) :
        /\ sinkLog[j].outcome = "commit"
        /\ \A m \in (j + 1)..Len(sinkLog) :
             sinkLog[m].outcome = "commit" => sinkLog[m].row.url # sinkLog[j].row.url}}

\* C11: a failed upsert is rolled back and neither aborts the crawl nor blocks later
\* writes: the table holds the committed writes only, no transaction is left aborted
\* while the loop runs, a write fails only by a fault of its own statement, and after
\* any write, failed or not, the loop body continues with the links of the page.
C11_UpsertFailureContained ==
    /\ [](/\ pc \in {"loop", "scrape", "links"} => txn = "idle" /\ store = Written
          /\ \A i \in 1..Len(sinkLog) : sinkLog[i].outcome = "rollback" => sinkLog[i].fault)
    /\ [][Len(sinkLog') > Len(sinkLog) => pc' = "links"]_vars
    /\ [][pc = "links" => pc' = "loop"]_vars

\* the write of one page failed and the write of the next fetched page was committed
C11_Witness ==
    \E i \in 1..(Len(sinkLog) - 1) :
        /\ sinkLog[i].outcome = "rollback"
        /\ sinkLog[i].row \notin store
        /\ sinkLog[i + 1].outcome = "commit"
        /\ sinkLog[i + 1].row \in store
        /\ sinkLog[i + 1].row.url # sinkLog[i].row.url

-----------------------------------------------------------------------------
(* insert_data called on its own, on the table that TRUNCATE left *)

\* how many calls of insert_data are followed
MaxCalls == 4

UpsertUrls == {Http(<<"/", "a">>), Http(<<"/", "b">>)}
UpsertTitles == {"T1", "T2"}

\* the connection is open with no transaction, the table is empty
InitUpsert ==
    /\ env = [START_URL |-> Http(<<"/">>), MAX_DEPTH |-> 0, MAX_RETRIES |-> 0,
              DRIVER_RESTART_INTERVAL |-> 1, PAGE_LIMIT |-> 0]
    /\ pc = "insert_data"
    /\ urls_to_visit = << >>
    /\ visited_urls = {}
    /\ pages_scraped_count = 0
    /\ driver = 0
    /\ pg_conn = "open"
    /\ current = [url |-> << >>, depth |-> 0]
    /\ retry_count = 0
    /\ result = NoResult
    /\ sessions = << >>
    /\ store = {}
    /\ txn = "idle"
    /\ fetchLog = << >>
    /\ attemptLog = << >>
    /\ sinkLog = << >>
    /\ restartLog = << >>
    /\ sleepLog = << >>
    /\ faults = [fetch |-> 0, db |-> 0, driver |-> 0]
    /\ tables = {"pages", "knowledge_base"}
    /\ conversation_history = << >>
    /\ added = << >>

\* one call insert_data(conn, {'url': u, 'title': t, 'content': t})
InsertCall ==
    /\ pc = "insert_data"
    /\ Len(sinkLog) < MaxCalls
    /\ \E u \in UpsertUrls, t \in UpsertTitles, db \in DbOutcomes :
         /\ insert_data([url |-> u, title |-> t, content |-> t], db)
         /\ faults' = DbFault(db)
    /\ UNCHANGED <<tables, conversation_history, added>>
    /\ UNCHANGED <<env, pc, urls_to_visit, visited_urls, pages_scraped_count, driver,
                   pg_conn, current, retry_count, result, sessions, fetchLog, attemptLog,
                   restartLog, sleepLog>>

NextUpsert == InsertCall

SpecUpsert == InitUpsert /\ [][NextUpsert]_vars

\* the committed calls of insert_data for url u, by their index in sinkLog
CommittedFor(u) ==
    {i \in 1..Len(sinkLog) : sinkLog[i].outcome = "commit" /\ sinkLog[i].row.url = u}

\* C12: the upsert is keyed by url and the last write wins: after any sequence of
\* calls the table has at most one row per url, a url never written has none, and
\* the row of a written url carries the values of the last committed call for it.
C12_LastWriteWins ==
    /\ \A r1 \in store, r2 \in store : r1.url = r2.url => r1 = r2
    /\ \A u \in UpsertUrls :
         IF CommittedFor(u) = {}
         THEN \A r \in store : r.url # u
         ELSE LET last == CHOOSE i \in CommittedFor(u) : \A j \in CommittedFor(u) : j <= i
              IN  sinkLog[last].row \in store

\* title T1 then title T2 were written for one url: one row, with title T2
C12_Witness ==
    /\ Len(sinkLog) = 2
    /\ sinkLog[1].outcome = "commit" /\ sinkLog[2].outcome = "commit"
    /\ sinkLog[1].row.url = sinkLog[2].row.url
    /\ sinkLog[1].row.title = "T1" /\ sinkLog[2].row.title = "T2"
    /\ Cardinality(store) = 1
    /\ \A r \in store : r.title = "T2"

-----------------------------------------------------------------------------

\* the run of the example: the seed is the home page, whose anchors are two pages of
\* the domain, one page of another domain and one mailto: link; MAX_DEPTH is 1, no
\* page limit, and no call of the environment has failed
ExampleRun ==
    /\ START_URL = Http(<<"/">>)
    /\ MAX_DEPTH = 1
    /\ PAGE_LIMIT = 0
    /\ faults = [fetch |-> 0, db |-> 0, driver |-> 0]

ExampleFetches ==
    << <<rstrip(Http(<<"/">>)), 0>>, <<Http(<<"/", "a">>), 1>>, <<Http(<<"/", "b">>), 1>> >>

\* C13: in the example run the seed is fetched at depth 0 and stored with status
\* success, exactly the two links of the domain are queued and fetched at depth 1,
\* the link of the other domain and the mailto: link are never queued, and the run
\* ends with a page count of 3.
C13_ExampleRun ==
    ExampleRun =>
        /\ \A j \in 1..Len(urls_to_visit) :
             urls_to_visit[j] \in {<<START_URL, 0>>, ExampleFetches[2], ExampleFetches[3]}
        /\ Len(fetchLog) <= 3
        /\ \A i \in 1..Len(fetchLog) : fetchLog[i] = ExampleFetches[i]
        /\ \A i \in 1..Len(sinkLog) :
             /\ sinkLog[i].row.url = ExampleFetches[i][1]
             /\ sinkLog[i].row.page_depth = ExampleFetches[i][2]
             /\ sinkLog[i].row.status = "success"
             /\ sinkLog[i].row \in store
        /\ Terminated =>
             /\ fetchLog = ExampleFetches
             /\ Len(sinkLog) = 3
             /\ pages_scraped_count = 3

\* the example run has ended
C13_Witness ==
    /\ ExampleRun
    /\ Terminated
    /\ pages_scraped_count = 3
    /\ Cardinality(store) = 3

-----------------------------------------------------------------------------
(* is_valid_url and the normalisation called on their own *)

\* the urls given to is_valid_url
UrlInputs ==
    { << >>,
      <<"mailto:", "x@y.com">>, <<"tel:", "123">>, <<"#", "section">>,
      <<"javascript:", "void(0)">>,
      <<"http:", "/", "/", "y", "/", "a">>, <<"https:", "/", "/", "y", "/", "a">>,
      Http(<<"/", "login">>), Http(<<"/", "Login">>), Http(<<"/", "a", "/", "cart", "/">>),
      Http(<<"/", "f", ".pdf">>), Http(<<"/", "f", ".PDF">>), Http(<<"/", "f", ".pdf", "/">>),
      Http(<<"/", "f", ".pdf", "#", "s">>),
      Http(<< >>), Http(<<"/">>), Http(<<"/", "a">>), Http(<<"/", "a", "/">>),
      Http(<<"/", "a", "/", "/">>), Http(<<"/", "a", "#", "s">>),
      <<"https:", "/", "/", "x", "/", "a">>,
      <<"ftp:", "/", "/", "x", "/", "a">>,
      <<"/", "/", "x", "/", "a">>,
      <<"/", "a">>, <<"a">> }

\* the visited sets given to is_valid_url: sets of normalized urls
VisitedInputs == { {}, {Http(<<"/", "a">>)}, {Http(<< >>), Http(<<"/", "a">>)} }

\* current.url is the argument, DOMAIN the netloc of the seed; result will hold the
\* value returned and the urls that successive normalisations give
InitUrl ==
    /\ env \in [START_URL : {Http(<<"/">>), <<"http:", "/", "/", "y", "/">>},
                MAX_DEPTH : {0}, MAX_RETRIES : {0}, DRIVER_RESTART_INTERVAL : {1},
                PAGE_LIMIT : {0}]
    /\ pc = "url"
    /\ current \in [url : UrlInputs, depth : {0}]
    /\ visited_urls \in VisitedInputs
    /\ result = [called |-> FALSE, valid |-> FALSE, keys |-> << >>]
    /\ urls_to_visit = << >>
    /\ pages_scraped_count = 0
    /\ driver = 0
    /\ pg_conn = "none"
    /\ retry_count = 0
    /\ sessions = << >>
    /\ store = {}
    /\ txn = "idle"
    /\ fetchLog = << >>
    /\ attemptLog = << >>
    /\ sinkLog = << >>
    /\ restartLog = << >>
    /\ sleepLog = << >>
    /\ faults = [fetch |-> 0, db |-> 0, driver |-> 0]
    /\ tables = {"pages", "knowledge_base"}
    /\ conversation_history = << >>
    /\ added = << >>

\* is_valid_url(url, DOMAIN, visited_urls)
Validate ==
    /\ pc = "url"
    /\ ~result.called
    /\ result' = [result EXCEPT !.called = TRUE,
                                !.valid = is_valid_url(current.url, DOMAIN_, visited_urls)]
    /\ UNCHANGED <<tables, conversation_history, added>>
    /\ UNCHANGED <<env, pc, urls_to_visit, visited_urls, pages_scraped_count, driver,
                   pg_conn, current, retry_count, sessions, store, txn, fetchLog,
                   attemptLog, sinkLog, restartLog, sleepLog, faults>>

\* .rstrip('/') of the url, then of what it gave (line 391, then line 217 on its result)
Normalize ==
    /\ pc = "url"
    /\ Len(result.keys) < 2
    /\ result' = [result EXCEPT !.keys =
                     Append(@, rstrip(IF @ = << >> THEN current.url ELSE @[Len(@)]))]
    /\ UNCHANGED <<tables, conversation_history, added>>
    /\ UNCHANGED <<env, pc, urls_to_visit, visited_urls, pages_scraped_count, driver,
                   pg_conn, current, retry_count, sessions, store, txn, fetchLog,
                   attemptLog, sinkLog, restartLog, sleepLog, faults>>

NextUrl ==
    \/ Validate
    \/ Normalize

SpecUrl == InitUrl /\ [][NextUrl]_vars

\* a url names a page of the crawl domain by http or https
SameDomain(url) ==
    /\ urlparse(url).scheme \in {<<"http:">>, <<"https:">>}
    /\ urlparse(url).netloc = DOMAIN_

\* an absolute url of another domain
CrossDomain(url) ==
    /\ urlparse(url).scheme \in {<<"http:">>, <<"https:">>}
    /\ urlparse(url).netloc # << >>
    /\ urlparse(url).netloc # DOMAIN_

\* a skip keyword occurs in the url, in any letter case
HasSkipKeyword(url) == \E i \in 1..Len(url) : lower(url[i]) \in SKIP_KEYWORDS

\* the url, trailing slashes and letter case apart, ends in an excluded extension
HasSkipExtension(url) ==
    rstrip(url) # << >> /\ lower(rstrip(url)[Len(rstrip(url))]) \in skip_extensions

\* C14: is_valid_url rejects mailto:x@y.com, tel:123, #section, an absolute url of
\* another domain, a url that contains a skip keyword and a url that ends in .pdf,
\* whatever the visited set; it accepts a url of the crawl domain that is not
\* visited, has no skip keyword and no excluded extension.
C14_RejectionSet ==
    result.called =>
        /\ current.url \in {<<"mailto:", "x@y.com">>, <<"tel:", "123">>, <<"#", "section">>}
             => ~result.valid
        /\ CrossDomain(current.url) => ~result.valid
        /\ (\E i \in 1..Len(current.url) : current.url[i] \in SKIP_KEYWORDS) => ~result.valid
        /\ (current.url # << >> /\ current.url[Len(current.url)] = ".pdf") => ~result.valid
        /\ ( /\ SameDomain(current.url)
             /\ rstrip(current.url) \notin visited_urls
             /\ ~HasSkipKeyword(current.url)
             /\ ~HasSkipExtension(current.url) ) => result.valid

\* a page of the domain is accepted while other pages are visited
C14_Witness ==
    /\ result.called
    /\ result.valid
    /\ current.url = <<"https:", "/", "/", "x", "/", "a">>
    /\ DOMAIN_ = <<"x">>
    /\ visited_urls = {Http(<< >>), Http(<<"/", "a">>)}

\* C15: is_valid_url returns true exactly when the scheme is http or https, the
\* netloc is the crawl domain, the normalized url is not visited, and the url has
\* neither a skip keyword nor an excluded extension.
C15_ValidExactlyWhen ==
    result.called =>
        (result.valid <=>
            /\ SameDomain(current.url)
            /\ rstrip(current.url) \notin visited_urls
            /\ ~HasSkipKeyword(current.url)
            /\ ~HasSkipExtension(current.url))

\* C16: the normalisation is idempotent: normalising a normalized url gives it back.
C16_NormalizeIdempotent ==
    Len(result.keys) = 2 => result.keys[2] = result.keys[1]

\* a url with two trailing slashes was normalized twice
C16_Witness ==
    /\ current.url = Http(<<"/", "a", "/", "/">>)
    /\ result.keys = <<Http(<<"/", "a">>), Http(<<"/", "a">>)>>

-----------------------------------------------------------------------------

\* C17: whatever way crawl_website leaves the loop or the startup, when it is over
\* no browser session it created is still held live and the connection it opened is
\* closed.
C17_ResourcesReleased ==
    Terminated => LiveSessions = {} /\ pg_conn # "open"

\* C18: with a page limit the pages accepted never exceed it; the limit acts only at
\* the head of the loop, so a page once started goes on to its terminal record; when
\* the limit is reached the loop ends with the rest of the frontier left in the
\* queue; with PAGE_LIMIT = 0 the loop ends, unless a restart fails, only on an empty
\* frontier.
C18_PageLimit ==
    /\ [](/\ PAGE_LIMIT > 0 => pages_scraped_count <= PAGE_LIMIT /\ Len(fetchLog) <= PAGE_LIMIT
          /\ pc \in {"loop", "finally", "done"} => Len(sinkLog) = Len(fetchLog))
    /\ [][pc = "scrape" => pc' \in {"scrape", "links"}]_vars
    /\ [][pc = "loop" /\ LimitReached => urls_to_visit' = urls_to_visit /\ pc' = "finally"]_vars
    /\ [][(pc = "finally" \/ pc = "done") => UNCHANGED urls_to_visit]_vars
    /\ [][pc = "loop" /\ pc' = "finally" /\ PAGE_LIMIT = 0 /\ restartLog' = restartLog
            => urls_to_visit = << >>]_vars

\* the limit of two pages ended the run with entries left in the queue
C18_Witness ==
    /\ Terminated
    /\ PAGE_LIMIT = 2
    /\ pages_scraped_count = 2
    /\ Len(sinkLog) = 2
    /\ urls_to_visit # << >>

\* how many attempts for url u failed before attempt k of attemptLog
FailedBefore(u, k) ==
    Cardinality({m \in 1..(k - 1) : attemptLog[m].url = u /\ attemptLog[m].outcome # "ok"})

\* C19: a fetch that succeeds after k failed attempts for its url (0 <= k <=
\* MAX_RETRIES) gives the one terminal record of that url, with status success and
\* retry count exactly k.
C19_SuccessRetryCount ==
    \A k \in 1..Len(attemptLog) :
        attemptLog[k].outcome = "ok" =>
            LET u == attemptLog[k].url
                failed == FailedBefore(u, k)
            IN  /\ attemptLog[k].retry_count = failed
                /\ failed <= MAX_RETRIES
                /\ \E i \in 1..Len(sinkLog) :
                     /\ sinkLog[i].row.url = u
                     /\ sinkLog[i].row.status = "success"
                     /\ sinkLog[i].row.retry_count = failed
                     /\ \A j \in 1..Len(sinkLog) : sinkLog[j].row.url = u => j = i

\* a page was fetched at its third attempt
C19_Witness ==
    /\ pc = "links"
    /\ Len(attemptLog) = 3
    /\ attemptLog[1].outcome = "timeout" /\ attemptLog[2].outcome = "error"
    /\ attemptLog[3].outcome = "ok"
    /\ sinkLog[1].row.status = "success"
    /\ sinkLog[1].row.retry_count = 2
    /\ sinkLog[1].row \in store

\* the attempts made for url u, by their index in attemptLog
AttemptsFor(u) == {k \in 1..Len(attemptLog) : attemptLog[k].url = u}

\* a backoff sleep, as an entry of sleepLog
IsBackoff(s) == s.kind = "backoff"

\* a failed attempt below the retry limit, as an entry of attemptLog
FailedBelow(a) == a.outcome # "ok" /\ a.retry_count < MAX_RETRIES

\* the backoff sleeps made for url u
BackoffsFor(u) == {k \in 1..Len(sleepLog) : IsBackoff(sleepLog[k]) /\ sleepLog[k].url = u}

\* the retry sequence of url u is still running
Retrying(u) == pc = "scrape" /\ current.url = u

\* url u has its terminal record
Done(u) == \E j \in 1..Len(sinkLog) : sinkLog[j].row.url = u

\* C20: the retry sequence of a url is bounded: at least one and at most
\* MAX_RETRIES + 1 attempts, made one after the other and numbered 0, 1, 2, ...; a
\* failed attempt below MAX_RETRIES is followed by one backoff sleep and one further
\* attempt, numbered one higher; a failed attempt numbered MAX_RETRIES, like a
\* successful one, is followed by no attempt but by the terminal record.
C20_RetrySequence ==
    /\ \A i \in 1..Len(fetchLog) :
         LET u == fetchLog[i][1] IN
         /\ Cardinality(AttemptsFor(u)) <= MAX_RETRIES + 1
         /\ Retrying(u) \/ Done(u)
         /\ Done(u) => AttemptsFor(u) # {} /\ ~Retrying(u)
    /\ \A k \in 1..Len(attemptLog) :
         LET a == attemptLog[k]
             continues == k > 1 /\ attemptLog[k - 1].url = a.url
             last == k = Len(attemptLog) \/ attemptLog[k + 1].url # a.url
         IN  /\ IF continues
                THEN /\ FailedBelow(attemptLog[k - 1])
                     /\ a.retry_count = attemptLog[k - 1].retry_count + 1
                ELSE /\ a.retry_count = 0
                     /\ \A m \in 1..(k - 1) : attemptLog[m].url # a.url
             /\ IF FailedBelow(a)
                THEN IF k = Len(attemptLog)
                     THEN Retrying(a.url) /\ retry_count = a.retry_count + 1
                     ELSE ~last
                ELSE last /\ Done(a.url)
    /\ LET slept == SelectSeq(sleepLog, IsBackoff)
           failed == SelectSeq(attemptLog, FailedBelow)
       IN  /\ Len(slept) = Len(failed)
           /\ \A j \in 1..Len(slept) : slept[j].url = failed[j].url

\* with MAX_RETRIES = 2 a page failed three times: two backoff sleeps, then the
\* terminal record
C20_Witness ==
    /\ MAX_RETRIES = 2
    /\ pc = "links"
    /\ Len(attemptLog) = 3
    /\ \A k \in 1..3 : attemptLog[k].outcome # "ok" /\ attemptLog[k].retry_count = k - 1
    /\ Cardinality(BackoffsFor(current.url)) = 2
    /\ Len(sinkLog) = 1
    /\ sinkLog[1].row.status \in {"failed", "error"}

-----------------------------------------------------------------------------

\* an entry is in the queue after the step that was not in it before
Enqueued ==
    \E j \in 1..Len(urls_to_visit') :
        \A i \in 1..Len(urls_to_visit) : urls_to_visit'[j] # urls_to_visit[i]

\* C21: links are queued only in the loop body of a page whose terminal record has
\* status success and whose depth is below MAX_DEPTH; a page that ended failed or
\* error, or a page at MAX_DEPTH, adds nothing; with MAX_DEPTH = 0 only the seed is
\* fetched and the queue never holds anything but the seed.
C21_LinksOnlyFromSuccess ==
    /\ [][Enqueued =>
            /\ pc = "links"
            /\ current.depth < MAX_DEPTH
            /\ result.success
            /\ sinkLog[Len(sinkLog)].row.url = current.url
            /\ sinkLog[Len(sinkLog)].row.status = "success"]_vars
    /\ [](MAX_DEPTH = 0 =>
            /\ Len(fetchLog) <= 1
            /\ \A j \in 1..Len(urls_to_visit) : urls_to_visit[j] = <<START_URL, 0>>)

\* page a, which has links, ended failed below MAX_DEPTH and the loop went on with
\* nothing queued from it
C21_Witness ==
    /\ pc = "loop"
    /\ current.url = Http(<<"/", "a">>)
    /\ current.depth < MAX_DEPTH
    /\ sinkLog[Len(sinkLog)].row.url = current.url
    /\ sinkLog[Len(sinkLog)].row.status \in {"failed", "error"}
    /\ \A j \in 1..Len(urls_to_visit) : urls_to_visit[j][2] = 1

\* C22: the queue never holds two entries with the same normalized url; the link
\* loop only appends, each entry it appends is eligible and was not pending, and it
\* always comes back to the head of the loop.
C22_NoDuplicatePending ==
    /\ [](\A i \in 1..Len(urls_to_visit), j \in 1..Len(urls_to_visit) :
            Key(urls_to_visit[i][1]) = Key(urls_to_visit[j][1]) => i = j)
    /\ [][pc = "links" =>
            /\ pc' = "loop"
            /\ Len(urls_to_visit') >= Len(urls_to_visit)
            /\ SubSeq(urls_to_visit', 1, Len(urls_to_visit)) = urls_to_visit
            /\ \A j \in (Len(urls_to_visit) + 1)..Len(urls_to_visit') :
                 /\ is_valid_url(urls_to_visit'[j][1], DOMAIN_, visited_urls)
                 /\ \A i \in 1..(j - 1) :
                      Key(urls_to_visit'[i][1]) # Key(urls_to_visit'[j][1])]_vars

\* the links of page a, which names c with and without a trailing slash and names
\* ineligible urls, were processed: c is pending once
C22_Witness ==
    /\ pc = "loop"
    /\ current.url = Http(<<"/", "a">>)
    /\ result.success
    /\ current.depth < MAX_DEPTH
    /\ Cardinality({j \in 1..Len(urls_to_visit) :
                      Key(urls_to_visit[j][1]) = Http(<<"/", "c">>)}) = 1

\* C23: the frontier is first-in first-out and breadth-first: the depths of the
\* queued entries never decrease from head to tail and span at most two consecutive
\* values, the depths of the pages fetched never decrease, the page fetched is the
\* head of the queue, and the queue changes only by losing its head or by gaining
\* entries at its tail.
C23_FifoBreadthFirst ==
    /\ [](/\ \A j \in 1..(Len(urls_to_visit) - 1) :
               urls_to_visit[j][2] <= urls_to_visit[j + 1][2]
          /\ urls_to_visit # << >> =>
               urls_to_visit[Len(urls_to_visit)][2] - urls_to_visit[1][2] <= 1
          /\ \A i \in 1..(Len(fetchLog) - 1) : fetchLog[i][2] <= fetchLog[i + 1][2])
    /\ [][\/ UNCHANGED urls_to_visit
          \/ urls_to_visit # << >> /\ urls_to_visit' = Tail(urls_to_visit)
          \/ /\ Len(urls_to_visit') > Len(urls_to_visit)
             /\ SubSeq(urls_to_visit', 1, Len(urls_to_visit)) = urls_to_visit]_vars
    /\ [][Len(fetchLog') > Len(fetchLog) =>
            /\ urls_to_visit' = Tail(urls_to_visit)
            /\ fetchLog'[Len(fetchLog')] =
                 <<Key(Head(urls_to_visit)[1]), Head(urls_to_visit)[2]>>]_vars

\* entries of depth 1 and of depth 2 are pending, and pages of depth 0 and 1 were
\* fetched
C23_Witness ==
    /\ pc = "loop"
    /\ Len(urls_to_visit) >= 2
    /\ urls_to_visit[1][2] = 1
    /\ urls_to_visit[Len(urls_to_visit)][2] = 2
    /\ Len(fetchLog) = 2
    /\ fetchLog[1][2] = 0 /\ fetchLog[2][2] = 1

\* C24: the visited set only grows; a url enters it in the step that takes its entry
\* from the head of the queue and accepts it, never in a step that queues entries;
\* the url of a page that ended failed or error stays visited and is never pending
\* again.
C24_VisitedOnlyGrows ==
    /\ [][visited_urls \subseteq visited_urls']_vars
    /\ [][visited_urls' # visited_urls =>
            /\ pc = "loop"
            /\ urls_to_visit # << >>
            /\ Accepted(Head(urls_to_visit)[1], Head(urls_to_visit)[2])
            /\ urls_to_visit' = Tail(urls_to_visit)
            /\ visited_urls' = visited_urls \cup {Key(Head(urls_to_visit)[1])}]_vars
    /\ [][Enqueued => UNCHANGED visited_urls]_vars
    /\ [](\A i \in FailedRows :
            /\ sinkLog[i].row.url \in visited_urls
            /\ \A j \in 1..Len(urls_to_visit) : Key(urls_to_visit[j][1]) # sinkLog[i].row.url)

\* page a ended failed or error, page b, which links to it, was fetched after it,
\* and a is still visited and not pending
C24_Witness ==
    /\ pc = "loop"
    /\ Len(sinkLog) = 3
    /\ sinkLog[2].row.url = Http(<<"/", "a">>)
    /\ sinkLog[2].row.status \in {"failed", "error"}
    /\ sinkLog[3].row.url = Http(<<"/", "b">>)
    /\ sinkLog[3].row.status = "success"
    /\ current.depth < MAX_DEPTH
    /\ Cardinality(visited_urls) = 3

\* a politeness delay, as an entry of sleepLog
IsPoliteness(s) == s.kind = "politeness"

\* the run was ended by a restart whose get_driver raised, for the url just accepted
RestartAborted ==
    /\ pc \in {"finally", "done"}
    /\ restartLog # << >>
    /\ restartLog[Len(restartLog)].new = 0

\* C25 as stated: every accepted url, that is every url of the visited set, has had
\* its politeness delay, exactly one.
C25_OncePerAccepted ==
    /\ Cardinality(visited_urls) = Len(SelectSeq(sleepLog, IsPoliteness))
    /\ \A u \in visited_urls :
         \E k \in 1..Len(sleepLog) : IsPoliteness(sleepLog[k]) /\ sleepLog[k].url = u

\* C25: the politeness delay is made once for every url whose fetch is begun, in the
\* step that marks it visited and before its first attempt; the sleeps between the
\* attempts of one url are backoffs only; a url accepted when the restart of the
\* driver raises is never fetched: it has no delay and the run ends.
C25_PolitenessOncePerUrl ==
    /\ [](LET polite == SelectSeq(sleepLog, IsPoliteness)
          IN  /\ Len(polite) = Len(fetchLog)
              /\ \A i \in 1..Len(polite) : polite[i].url = fetchLog[i][1]
              /\ Cardinality(visited_urls) =
                   Len(polite) + (IF RestartAborted THEN 1 ELSE 0))
    /\ [][(sleepLog' # sleepLog /\ IsPoliteness(sleepLog'[Len(sleepLog')])) =>
            /\ Len(sleepLog') = Len(sleepLog) + 1
            /\ sleepLog'[Len(sleepLog')].url \notin visited_urls
            /\ sleepLog'[Len(sleepLog')].url \in visited_urls'
            /\ \A k \in 1..Len(attemptLog) : attemptLog[k].url # sleepLog'[Len(sleepLog')].url
            /\ pc' = "scrape" /\ retry_count' = 0
            /\ current'.url = sleepLog'[Len(sleepLog')].url]_vars
    /\ [][(pc = "scrape" /\ sleepLog' # sleepLog) =>
            /\ sleepLog' = Append(sleepLog, [kind |-> "backoff", url |-> current.url])
            /\ retry_count' = retry_count + 1]_vars

\* a page was retried twice: one politeness delay before its first attempt, then
\* two backoffs
C25_Witness ==
    /\ Len(attemptLog) = 3
    /\ \A k \in 1..3 : attemptLog[k].url = current.url
    /\ Len(sleepLog) = 3
    /\ IsPoliteness(sleepLog[1])
    /\ IsBackoff(sleepLog[2]) /\ IsBackoff(sleepLog[3])

\* the entry at the head of the queue is one the loop body drops
HeadRejected ==
    /\ pc = "loop"
    /\ urls_to_visit # << >>
    /\ ~LimitReached
    /\ \/ ~is_valid_url(rstrip(Head(urls_to_visit)[1]), DOMAIN_, visited_urls)
       \/ Head(urls_to_visit)[2] > MAX_DEPTH

\* C26: an entry that the validator rejects or whose depth is above MAX_DEPTH is
\* taken from the queue and nothing else happens: visited set, page counter, session
\* and store are unchanged, no delay, fetch or restart is made, and the loop goes on.
C26_SkipHasNoOtherEffect ==
    [][HeadRejected =>
         /\ urls_to_visit' = Tail(urls_to_visit)
         /\ pc' = "loop"
         /\ UNCHANGED <<visited_urls, pages_scraped_count, driver, sessions, store,
                        sleepLog, fetchLog, attemptLog, restartLog, sinkLog>>]_vars

\* the seed was rejected and dropped: the queue is empty and nothing else was touched
C26_Witness ==
    /\ pc = "loop"
    /\ urls_to_visit = << >>
    /\ ~is_valid_url(rstrip(START_URL), DOMAIN_, {})
    /\ visited_urls = {}
    /\ pages_scraped_count = 0
    /\ sleepLog = << >>
    /\ fetchLog = << >>
    /\ LiveSessions = {driver}

\* C27: when the connection cannot be opened the run goes to its end without
\* crawling: no browser session is created, the seed stays in the queue, nothing is
\* marked visited, counted, fetched or written.
C27_ConnectFailureAborts ==
    (pc # "connect" /\ pg_conn = "none") =>
        /\ pc \in {"finally", "done"}
        /\ sessions = << >> /\ driver = 0
        /\ urls_to_visit = << <<START_URL, 0>> >>
        /\ visited_urls = {}
        /\ pages_scraped_count = 0
        /\ fetchLog = << >> /\ attemptLog = << >> /\ sinkLog = << >>

\* psycopg2.connect raised and the run is over
C27_Witness ==
    /\ Terminated
    /\ pg_conn = "none"
    /\ faults.db = 1
    /\ sessions = << >>

-----------------------------------------------------------------------------
(* Termination *)

\* the urls the anchors of page b give when its base url is b
LinksOf(b) == {urljoin(b, PageAt(b).hrefs[i]) : i \in 1..Len(PageAt(b).hrefs)}

\* the keys the crawl of the site can meet: the seeds, the documents, their links,
\* and the links of these
SiteKeys ==
    LET docs == DOMAIN Site \cup {Http(<<"/">>), Http(<<"/", "login">>)}
        near == docs \cup UNION {LinksOf(b) : b \in docs}
    IN  {Key(u) : u \in near \cup UNION {LinksOf(b) : b \in near}}

PendingKeys == {Key(urls_to_visit[j][1]) : j \in 1..Len(urls_to_visit)}

\* the keys that were never in the queue
Unseen == (SiteKeys \ {Key(START_URL)}) \ (visited_urls \cup PendingKeys)

\* what is left to do: an entry that is pending counts once, a key that may still
\* be queued counts twice (once for its stay in the queue, once more so that
\* queueing it does not add to the count)
Remaining == 2 * Cardinality(Unseen) + Len(urls_to_visit)

\* the same counts in the next state
RemainingNext ==
    2 * Cardinality((SiteKeys \ {Key(START_URL)})
                      \ (visited_urls' \cup {Key(urls_to_visit'[j][1]) :
                                               j \in 1..Len(urls_to_visit')}))
      + Len(urls_to_visit')

\* C28: the crawl loop ends, whatever the fetches do: an entry is appended only with
\* a key of the site that was never in the queue, so each key enters the queue at
\* most once; no step adds to what is left to do and every iteration of the loop
\* body takes one entry away, so the iterations are bounded by the size of the site;
\* and a loop that was not cut short by a failed restart ends on an empty queue or
\* at the page limit.
C28_CrawlTerminates ==
    /\ [][\A j \in (Len(urls_to_visit) + 1)..Len(urls_to_visit') :
            /\ Key(urls_to_visit'[j][1]) \in Unseen
            /\ \A i \in 1..(j - 1) : Key(urls_to_visit'[i][1]) # Key(urls_to_visit'[j][1])]_vars
    /\ [][RemainingNext <= Remaining]_vars
    /\ [][(pc = "loop" /\ urls_to_visit # << >> /\ ~LimitReached) =>
            /\ urls_to_visit' = Tail(urls_to_visit)
            /\ RemainingNext < Remaining]_vars
    /\ []((Terminated /\ sessions # << >> /\ ~RestartAborted) =>
            urls_to_visit = << >> \/ LimitReached)

\* a run with failed fetches and no page limit came to its end on an empty queue
C28_Witness ==
    /\ Terminated
    /\ PAGE_LIMIT = 0
    /\ urls_to_visit = << >>
    /\ faults.fetch >= 2
    /\ Len(fetchLog) >= 3

\* C29: the queue and the visited set are disjoint by normalized url, so an entry
\* taken from the queue is never rejected for being visited: an entry that is
\* dropped would be dropped with an empty visited set as well.
C29_QueueVisitedDisjoint ==
    /\ [](PendingKeys \cap visited_urls = {})
    /\ [][HeadRejected =>
            \/ ~is_valid_url(rstrip(Head(urls_to_visit)[1]), DOMAIN_, {})
            \/ Head(urls_to_visit)[2] > MAX_DEPTH]_vars

\* page a, which links back to the visited home page, was processed; entries are
\* pending and none of them is visited
C29_Witness ==
    /\ pc = "loop"
    /\ current.url = Http(<<"/", "a">>)
    /\ result.success
    /\ current.depth < MAX_DEPTH
    /\ Len(urls_to_visit) >= 2
    /\ Cardinality(visited_urls) = 2

\* C30: the page counter is the size of the visited set; at the head of the loop and
\* at the end of a run that no failed restart cut short it is also the number of
\* terminal records, those with status failed or error included, so the page limit
\* and the total printed at the end count the failed pages.
C30_CounterIsVisitedSize ==
    /\ pages_scraped_count = Cardinality(visited_urls)
    /\ (pc = "loop" \/ (pc \in {"finally", "done"} /\ ~RestartAborted))
         => pages_scraped_count = Len(sinkLog)
    /\ RestartAborted => pages_scraped_count = Len(sinkLog) + 1

\* the limit of two pages was reached by a fetched page and a failed one
C30_Witness ==
    /\ Terminated
    /\ PAGE_LIMIT = 2
    /\ pages_scraped_count = 2
    /\ Cardinality(visited_urls) = 2
    /\ FailedRows = {2}
    /\ urls_to_visit # << >>

-----------------------------------------------------------------------------
(* The seed *)

\* the seed contains a skip keyword or ends in an excluded extension
SeedIneligible == HasSkipKeyword(START_URL) \/ HasSkipExtension(START_URL)

\* C31: the seed is put in the queue as it is and is validated only when it is taken
\* out: with a seed that contains a skip keyword or ends in an excluded extension
\* nothing is fetched, counted or written, and a run that reached the loop ends in
\* the ordinary way, by the empty queue.
C31_IneligibleSeedCrawlsNothing ==
    /\ (pc \in {"connect", "truncate", "create_tables", "get_driver"}
          => urls_to_visit = << <<START_URL, 0>> >>)
    /\ SeedIneligible =>
         /\ fetchLog = << >> /\ attemptLog = << >> /\ sinkLog = << >>
         /\ pages_scraped_count = 0 /\ visited_urls = {}
         /\ \A r \in store : r.url = Http(<<"/", "old">>)
         /\ Len(sessions) <= 1
         /\ (pc \in {"finally", "done"} /\ sessions # << >>) => urls_to_visit = << >>
         /\ pc \notin {"scrape", "links"}

\* a run seeded with a document ran through: one session, used for nothing and quit
C31_Witness ==
    /\ Terminated
    /\ HasSkipExtension(START_URL)
    /\ urls_to_visit = << >>
    /\ sessions = <<"quit">>
    /\ pg_conn = "closed"
    /\ store = {}
    /\ fetchLog = << >>

-----------------------------------------------------------------------------
(* The status of an exhausted url *)

\* C32: the status of a terminal record is that of the last attempt made for its
\* url: failed when that attempt, numbered MAX_RETRIES, timed out, error when it
\* raised anything else, whatever the attempts before it raised.
C32_StatusFromLastFailure ==
    \A i \in 1..Len(sinkLog) :
        LET a == attemptLog[LastAttemptOf(i)]
            status == sinkLog[i].row.status
        IN  /\ sinkLog[i].row.url = a.url
            /\ status = "success" <=> a.outcome = "ok"
            /\ status = "failed" <=> (a.outcome = "timeout" /\ a.retry_count = MAX_RETRIES)
            /\ status = "error" <=>
                 (a.outcome \in {"error", "fatal"} /\ a.retry_count = MAX_RETRIES)

\* the seed failed with another exception, then timed out: its record says failed
C32_Witness ==
    /\ MAX_RETRIES = 1
    /\ Len(attemptLog) = 2
    /\ attemptLog[1].outcome = "error"
    /\ attemptLog[2].outcome = "timeout"
    /\ attemptLog[1].url = attemptLog[2].url
    /\ Len(sinkLog) = 1
    /\ sinkLog[1].row.status = "failed"

-----------------------------------------------------------------------------
(* The table and the visited set *)

StoreKeys == {r.url : r \in store}

\* the urls whose upsert was committed
CommittedKeys ==
    {sinkLog[i].row.url : i \in {j \in 1..Len(sinkLog) : sinkLog[j].outcome = "commit"}}

\* the fetch of the current page succeeded and its upsert failed
UnstoredSuccess ==
    /\ sinkLog # << >>
    /\ sinkLog[Len(sinkLog)].row.url = current.url
    /\ sinkLog[Len(sinkLog)].row.status = "success"
    /\ sinkLog[Len(sinkLog)].outcome = "rollback"

-----------------------------------------------------------------------------
(* Startup *)

\* C34: the run starts by connect, TRUNCATE of the pages table, create_tables,
\* get_driver, and then the loop; the TRUNCATE comes before the tables are made, so
\* on a database without the pages table the run ends at the TRUNCATE: no table is
\* made, no session is created and no page is fetched.
C34_StartupOrder ==
    /\ [][/\ (pc = "connect" => (pc' = "truncate" \/ pc' = "finally"))
          /\ (pc = "truncate" => (pc' = "create_tables" \/ pc' = "finally"))
          /\ (pc = "create_tables" => pc' = "get_driver")
          /\ (pc = "get_driver" => (pc' = "loop" \/ pc' = "finally"))
          /\ (pc' = "loop" => (pc = "get_driver" \/ pc = "loop" \/ pc = "links"))]_vars
    /\ [][(pc = "truncate" /\ "pages" \notin tables) =>
            /\ pc' = "finally"
            /\ UNCHANGED <<tables, store, sessions, driver>>]_vars
    /\ []("pages" \notin tables =>
            /\ pc \in {"connect", "truncate", "finally", "done"}
            /\ sessions = << >> /\ driver = 0
            /\ fetchLog = << >> /\ sinkLog = << >>
            /\ pages_scraped_count = 0
            /\ store = {})

\* the connection was opened, the TRUNCATE failed for the missing table, the one
\* failure of the run, which is over with the connection closed
C34_Witness ==
    /\ Terminated
    /\ "pages" \notin tables
    /\ pg_conn = "closed"
    /\ txn = "aborted"
    /\ sessions = << >>
    /\ faults = [fetch |-> 0, db |-> 1, driver |-> 0]
    /\ urls_to_visit = << <<START_URL, 0>> >>

-----------------------------------------------------------------------------
(* simple_voice_agent.py: add_to_history called on its own *)

\* len(conversation_history) > 10, conversation_history[-10:]
HistoryLimit == 10

\* how many calls of add_to_history are followed
MaxAdds == 12

HistoryRoles == {"user", "assistant"}
HistoryContents == {"text"}

\* s[-n:]
LastOf(s, n) == IF Len(s) > n THEN SubSeq(s, Len(s) - n + 1, Len(s)) ELSE s

\* a history that keeps its first messages and drops the new ones
add_to_history_keep_first(history, role, content) ==
    LET appended == Append(history, [role |-> role, content |-> content])
    IN  IF Len(appended) > HistoryLimit THEN SubSeq(appended, 1, HistoryLimit)
        ELSE appended

\* add_to_history(role, content): the new value of conversation_history
add_to_history(history, role, content) ==
    LET appended == Append(history, [role |-> role, content |-> content])
    IN  IF Len(appended) > HistoryLimit THEN LastOf(appended, HistoryLimit)
        ELSE appended

\* conversation_history = [] at import
InitHistory ==
    /\ env = [START_URL |-> Http(<<"/">>), MAX_DEPTH |-> 0, MAX_RETRIES |-> 0,
              DRIVER_RESTART_INTERVAL |-> 1, PAGE_LIMIT |-> 0]
    /\ pc = "voice_agent"
    /\ urls_to_visit = << >>
    /\ visited_urls = {}
    /\ pages_scraped_count = 0
    /\ driver = 0
    /\ pg_conn = "none"
    /\ current = [url |-> << >>, depth |-> 0]
    /\ retry_count = 0
    /\ result = NoResult
    /\ sessions = << >>
    /\ store = {}
    /\ txn = "idle"
    /\ fetchLog = << >>
    /\ attemptLog = << >>
    /\ sinkLog = << >>
    /\ restartLog = << >>
    /\ sleepLog = << >>
    /\ faults = [fetch |-> 0, db |-> 0, driver |-> 0]
    /\ tables = {}
    /\ conversation_history = << >>
    /\ added = << >>

\* one call add_to_history(role, content)
AddToHistory ==
    /\ pc = "voice_agent"
    /\ Len(added) < MaxAdds
    /\ \E role \in HistoryRoles, content \in HistoryContents :
         /\ conversation_history' = add_to_history(conversation_history, role, content)
         /\ added' = Append(added, [role |-> role, content |-> content])
    /\ UNCHANGED tables
    /\ UNCHANGED <<env, pc, urls_to_visit, visited_urls, pages_scraped_count, driver,
                   pg_conn, current, retry_count, result, sessions, store, txn, fetchLog,
                   attemptLog, sinkLog, restartLog, sleepLog, faults>>

NextHistory == AddToHistory

SpecHistory == InitHistory /\ [][NextHistory]_vars

\* C35: after any calls of add_to_history the history has at most 10 messages, and
\* they are the messages added last, in the order in which they were added.
C35_HistoryIsLastTen ==
    /\ Len(conversation_history) <= HistoryLimit
    /\ Len(conversation_history) =
         (IF Len(added) < HistoryLimit THEN Len(added) ELSE HistoryLimit)
    /\ \A i \in 1..Len(conversation_history) :
         conversation_history[i] = added[Len(added) - Len(conversation_history) + i]

\* twelve messages were added: the history starts at the third, which differs from
\* the first
C35_Witness ==
    /\ Len(added) = 12
    /\ Len(conversation_history) = 10
    /\ added[1].role = "user"
    /\ added[3].role = "assistant"
    /\ conversation_history[1].role = "assistant"
    /\ conversation_history[10] = added[12]

====
